---- MODULE Spec2Model ----
(***************************************************************************)
(* Enrollment lifecycle of the LMS backend: the enrollments router         *)
(* (src/server.js lines 51-348), the Enrollment schema                     *)
(* (src/models/Enrollment.js) and the store they run against.              *)
(*                                                                         *)
(* The store is a document store with snapshot-isolated multi-document     *)
(* transactions (session.withTransaction): a transaction reads the state   *)
(* committed when it began, buffers its writes, fails with a write         *)
(* conflict when it writes a document written by someone else since its    *)
(* snapshot, and is then re-run by withTransaction.  Operations outside a  *)
(* transaction are atomic per store call (findOneAndUpdate, save).         *)
(*                                                                         *)
(* The router names the owner and the course of an enrollment userId and   *)
(* courseId, the schema student and course: they are one pair of fields    *)
(* here, so the unique index of the schema is an index on the pair the     *)
(* router writes.  timeSpent and certificates are stored as the router     *)
(* writes them.  The lessons router (src/routes/lesson.js) likewise names  *)
(* the fields of a Progress record user, lesson and course and the course  *)
(* of a lesson course, the schemas userId, lessonId and courseId: the      *)
(* unique index of the Progress schema is an index on (user, course).      *)
(* Review (src/models/Review.js) recomputes the rating fields of a Course  *)
(* in a task that the post-save hook starts and nobody awaits.             *)
(***************************************************************************)
EXTENDS Integers, Sequences, FiniteSets, TLC

Students == {"s1", "s2"}
Procs == {"p1", "p2"}

\* Bounds of the model.
MaxDocs == 3
MaxClock == 2
MaxTimeSpent == 2
MinCount == 2

NoDate == 0
NoId == 0

VARIABLES
    courses,      \* Course collection: courseId -> document
    enrollments,  \* Enrollment collection: sequence of documents, _id = index
    req,          \* the request each handler slot is serving
    now,          \* the clock read by new Date() / Date.now()
    progressDocs, \* Progress collection: sequence of documents
    reviews       \* Review collection: sequence of documents

vars == <<courses, enrollments, req, now, progressDocs, reviews>>

\* The collections the enrollments router never touches.
otherCollections == <<progressDocs, reviews>>

validStatusesMutCompleted == {"active", "suspended", "cancelled", "completed"}

\* src/server.js:271
validStatuses == {"active", "suspended", "cancelled"}

IdleReq ==
    [pc |-> "idle", op |-> "none", student |-> "none", course |-> "none",
     id |-> NoId, dupInSnap |-> FALSE, stale |-> FALSE,
     progress |-> 0, cert |-> NoDate, resp |-> "none",
     lesson |-> "none", result |-> <<>>, doc |-> <<>>]

\* An optional field: <<>> when absent, <<v>> when it holds v.
Undefined == <<>>

\* The test if (course.maxEnrollments): neither absent nor 0.
Truthy(x) == x # Undefined /\ x[1] # 0

----------------------------------------------------------------------------
(* Queries of the enroll transaction, src/server.js:116-155 *)

\* countDocuments({courseId, status: {$in: ['active','completed']}})
currentEnrollments(c) ==
    Cardinality({i \in DOMAIN enrollments :
        /\ enrollments[i].course = c
        /\ enrollments[i].status \in {"active", "completed"}})

\* findOne({userId, courseId, status: {$in: ['active','completed']}})
existingEnrollment(s, c) ==
    \E i \in DOMAIN enrollments :
        /\ enrollments[i].student = s
        /\ enrollments[i].course = c
        /\ enrollments[i].status \in {"active", "completed"}

Range(seq) == {seq[i] : i \in DOMAIN seq}

\* find({userId, courseId: {$in: prerequisites}, status: 'completed'})
completedCourses(s, c) ==
    {i \in DOMAIN enrollments :
        /\ enrollments[i].student = s
        /\ enrollments[i].course \in Range(courses[c].prerequisites)
        /\ enrollments[i].status = "completed"}

\* The four admission checks in the order of the callback; "ok" when all pass.
AdmissionMutOrder(s, c) ==
    IF c \notin DOMAIN courses \/ ~courses[c].isActive
    THEN "Course not found or inactive"
    ELSE IF existingEnrollment(s, c)
    THEN "Already enrolled in this course"
    ELSE IF /\ Truthy(courses[c].maxEnrollments)
            /\ currentEnrollments(c) >= courses[c].maxEnrollments[1]
    THEN "Course enrollment is full"
    ELSE IF /\ Len(courses[c].prerequisites) > 0
            /\ Cardinality(completedCourses(s, c)) < Len(courses[c].prerequisites)
    THEN "Prerequisites not met"
    ELSE "ok"

AdmissionMutAnyPrereq(s, c) ==
    IF c \notin DOMAIN courses \/ ~courses[c].isActive
    THEN "Course not found or inactive"
    ELSE IF /\ Truthy(courses[c].maxEnrollments)
            /\ currentEnrollments(c) >= courses[c].maxEnrollments[1]
    THEN "Course enrollment is full"
    ELSE IF existingEnrollment(s, c)
    THEN "Already enrolled in this course"
    ELSE IF /\ Len(courses[c].prerequisites) > 0
            /\ Cardinality(completedCourses(s, c)) < 1
    THEN "Prerequisites not met"
    ELSE "ok"

Admission(s, c) ==
    IF c \notin DOMAIN courses \/ ~courses[c].isActive
    THEN "Course not found or inactive"
    ELSE IF /\ Truthy(courses[c].maxEnrollments)
            /\ currentEnrollments(c) >= courses[c].maxEnrollments[1]
    THEN "Course enrollment is full"
    ELSE IF existingEnrollment(s, c)
    THEN "Already enrolled in this course"
    ELSE IF /\ Len(courses[c].prerequisites) > 0
            /\ Cardinality(completedCourses(s, c)) < Len(courses[c].prerequisites)
    THEN "Prerequisites not met"
    ELSE "ok"

NewEnrollmentMutProgress(s, c) ==
    [student |-> s, course |-> c, status |-> "active", progress |-> 100,
     completedLessons |-> {}, timeSpent |-> 0, certificates |-> <<>>,
     completedAt |-> NoDate]

\* new Enrollment({...}), src/server.js:158-167
NewEnrollment(s, c) ==
    [student |-> s, course |-> c, status |-> "active", progress |-> 0,
     completedLessons |-> {}, timeSpent |-> 0, certificates |-> <<>>,
     completedAt |-> NoDate]

\* The unique index {student: 1, course: 1}: documents holding the pair.
IndexHolders(s, c) ==
    {i \in DOMAIN enrollments :
        enrollments[i].student = s /\ enrollments[i].course = c}

\* Requests whose open transaction holds an uncommitted write.
HasPendingInsert(q) == req[q].op = "enroll" /\ req[q].pc \in {"inc", "commit"}
HasPendingInc(q) == req[q].op = "enroll" /\ req[q].pc = "commit"
InTxn(q) == req[q].op = "enroll" /\ req[q].pc \in {"insert", "inc", "commit"}

\* A committed write to Course c makes every open transaction that read c stale.
MarkStale(r, c, p) ==
    [q \in Procs |->
        IF q # p /\ InTxn(q) /\ r[q].course = c
        THEN [r[q] EXCEPT !.stale = TRUE]
        ELSE r[q]]

OpenEnrolls == Cardinality({q \in Procs : req[q].op = "enroll" /\ req[q].pc # "done"})

----------------------------------------------------------------------------
(* POST /  -- enroll, src/server.js:104-190 *)

\* body('courseId').isMongoId(), src/server.js:63
isMongoId(c) == c # "invalid"

\* res.status(400).json({ message: error.message }), src/server.js:188: the
\* body of the answer to a rejected enroll request.
ErrorBody(message) == [message |-> message]

\* A request that has answered: what it was and the message it sent.
Ended(op, s, c, id, r) ==
    [IdleReq EXCEPT !.pc = "done", !.op = op, !.student = s, !.course = c,
                    !.id = id, !.resp = r]

\* A slot takes the next request once the previous one has answered and the
\* task it left behind has ended: returned ("done", or "logged" after its catch
\* block) or rejected with nobody to catch it.
Ready(p) == req[p].pc \in {"idle", "done", "logged", "rejected"}

\* One run of the withTransaction callback up to the first write: the reads
\* of lines 116-150 all see the snapshot taken here.
EnrollAttempt(p, s, c) ==
    LET e == Admission(s, c) IN
    /\ req' = [req EXCEPT ![p] =
                 IF e # "ok"
                 THEN Ended("enroll", s, c, NoId, e)
                 ELSE [IdleReq EXCEPT !.pc = "insert", !.op = "enroll",
                                      !.student = s, !.course = c,
                                      !.dupInSnap = (IndexHolders(s, c) # {})]]
    /\ UNCHANGED <<courses, enrollments, now>>
    /\ UNCHANGED otherCollections

EnrollBegin(p, s, c) ==
    /\ Ready(p)
    /\ Len(enrollments) + OpenEnrolls < MaxDocs
    /\ IF ~isMongoId(c)
       THEN /\ req' = [req EXCEPT ![p] = Ended("enroll", s, c, NoId, "Invalid course ID")]
            /\ UNCHANGED <<courses, enrollments, now>>
       ELSE EnrollAttempt(p, s, c)
    /\ UNCHANGED otherCollections

\* withTransaction re-runs the callback after a transient error.
EnrollRetry(p) ==
    /\ req[p].pc = "retry"
    /\ EnrollAttempt(p, req[p].student, req[p].course)

\* The unique index {student: 1, course: 1}, src/models/Enrollment.js:50: the
\* insert fails with a duplicate key when the snapshot holds the pair.
DuplicateKeyMutNoIndex(p) == FALSE

DuplicateKey(p) == req[p].dupInSnap

\* The store's first-writer-wins rule for the two writes of the transaction
\* (session.withTransaction, src/server.js:114): the insert conflicts with an
\* insert of the same pair, the $inc with a write to the same Course document,
\* made after the snapshot or still uncommitted.  Documents are never removed
\* and never change their pair, so a holder of the pair that the snapshot did
\* not have was inserted after the snapshot.
WriteConflictMutNone(p, w) == FALSE

WriteConflict(p, w) ==
    IF w = "insert"
    THEN \/ ~req[p].dupInSnap /\ IndexHolders(req[p].student, req[p].course) # {}
         \/ \E q \in Procs \ {p} :
                /\ HasPendingInsert(q)
                /\ req[q].student = req[p].student
                /\ req[q].course = req[p].course
    ELSE \/ req[p].stale
         \/ \E q \in Procs \ {p} : HasPendingInc(q) /\ req[q].course = req[p].course

EnrollInsertMutNoSession(p) ==
    /\ req[p].pc = "insert"
    /\ req' = [req EXCEPT ![p] = [@ EXCEPT !.pc = "inc"]]
    /\ enrollments' = Append(enrollments, NewEnrollment(req[p].student, req[p].course))
    /\ UNCHANGED <<courses, now>>
    /\ UNCHANGED otherCollections

\* enrollment.save({session}), src/server.js:169
EnrollInsert(p) ==
    /\ req[p].pc = "insert"
    /\ req' = [req EXCEPT ![p] =
                 IF DuplicateKey(p)
                 THEN Ended("enroll", req[p].student, req[p].course, NoId,
                            "E11000 duplicate key")
                 ELSE IF WriteConflict(p, "insert")
                 THEN [@ EXCEPT !.pc = "retry"]
                 ELSE [@ EXCEPT !.pc = "inc"]]
    /\ UNCHANGED <<courses, enrollments, now>>
    /\ UNCHANGED otherCollections

\* Course.findByIdAndUpdate(courseId, {$inc: {enrollmentCount: 1}}, {session}),
\* src/server.js:172-176
EnrollInc(p) ==
    /\ req[p].pc = "inc"
    /\ req' = [req EXCEPT ![p] =
                 IF WriteConflict(p, "inc")
                 THEN [@ EXCEPT !.pc = "retry"]
                 ELSE [@ EXCEPT !.pc = "commit"]]
    /\ UNCHANGED <<courses, enrollments, now>>
    /\ UNCHANGED otherCollections

\* The callback returned: the transaction commits both writes at once.
EnrollCommit(p) ==
    LET s == req[p].student
        c == req[p].course IN
    /\ req[p].pc = "commit"
    /\ enrollments' = Append(enrollments, NewEnrollment(s, c))
    /\ courses' = [courses EXCEPT ![c].enrollmentCount = @ + 1]
    /\ req' = [MarkStale(req, c, p) EXCEPT ![p] =
                 Ended("enroll", s, c, NoId, "created")]
    /\ UNCHANGED now
    /\ UNCHANGED otherCollections

----------------------------------------------------------------------------
(* PATCH /:id/progress, src/server.js:221-265 *)

progressValidationMutNoMax(progress, timeSpent) ==
    /\ progress >= 0
    /\ timeSpent # Undefined => timeSpent[1] >= 0

\* progressValidation, src/server.js:66-70
progressValidation(progress, timeSpent) ==
    /\ progress \in 0..100
    /\ timeSpent # Undefined => timeSpent[1] >= 0

\* The filter {_id, userId, status: 'active'}, src/server.js:243
MatchesActiveMutAnyStatus(id, caller) ==
    /\ id \in DOMAIN enrollments
    /\ enrollments[id].student = caller

MatchesActive(id, caller) ==
    /\ id \in DOMAIN enrollments
    /\ enrollments[id].student = caller
    /\ enrollments[id].status = "active"

ApplyUpdateMutUnion(e, progress, lessons, timeSpent) ==
    [e EXCEPT !.progress = progress,
              !.completedLessons = IF lessons # Undefined THEN @ \cup lessons[1] ELSE @,
              !.timeSpent = IF timeSpent # Undefined THEN @ + timeSpent[1] ELSE @,
              !.status = IF progress = 100 THEN "completed" ELSE @,
              !.completedAt = IF progress = 100 THEN now ELSE @]

ApplyUpdateMutReplace(e, progress, lessons, timeSpent) ==
    [e EXCEPT !.progress = progress,
              !.completedLessons = IF lessons # Undefined THEN lessons[1] ELSE @,
              !.timeSpent = IF timeSpent # Undefined THEN timeSpent[1] ELSE @,
              !.status = IF progress = 100 THEN "completed" ELSE @,
              !.completedAt = IF progress = 100 THEN now ELSE @]

\* updateData applied to the matched document, src/server.js:229-240
ApplyUpdate(e, progress, lessons, timeSpent) ==
    [e EXCEPT !.progress = progress,
              !.completedLessons = IF lessons # Undefined THEN lessons[1] ELSE @,
              !.timeSpent = IF timeSpent # Undefined THEN @ + timeSpent[1] ELSE @,
              !.status = IF progress = 100 THEN "completed" ELSE @,
              !.completedAt = IF progress = 100 THEN now ELSE @]

\* The test of line 253 on the document findOneAndUpdate returned.
NeedsCertificateMutAlways(e) == e.status = "completed"

NeedsCertificate(e) == e.status = "completed" /\ Len(e.certificates) = 0

UpdateProgress(p, id, caller, progress, lessons, timeSpent) ==
    /\ Ready(p)
    /\ IF ~progressValidation(progress, timeSpent)
       THEN /\ req' = [req EXCEPT ![p] =
                         [Ended("progress", caller, "none", id, "Validation failed")
                            EXCEPT !.progress = progress]]
            /\ UNCHANGED <<courses, enrollments, now>>
       ELSE IF ~MatchesActive(id, caller)
       THEN /\ req' = [req EXCEPT ![p] =
                         [Ended("progress", caller, "none", id,
                                "Active enrollment not found")
                            EXCEPT !.progress = progress]]
            /\ UNCHANGED <<courses, enrollments, now>>
       ELSE LET e == ApplyUpdate(enrollments[id], progress, lessons, timeSpent) IN
            /\ e.timeSpent <= MaxTimeSpent
            /\ enrollments' = [enrollments EXCEPT ![id] = e]
            /\ req' = [req EXCEPT ![p] =
                         IF NeedsCertificate(e)
                         THEN [IdleReq EXCEPT !.pc = "save", !.op = "progress",
                                              !.student = caller, !.id = id,
                                              !.progress = progress, !.cert = now]
                         ELSE [Ended("progress", caller, "none", id, "ok")
                                 EXCEPT !.progress = progress]]
            /\ UNCHANGED <<courses, now>>
    /\ UNCHANGED otherCollections

\* enrollment.certificates.push(...); enrollment.save(), src/server.js:254-258:
\* save() sends the push of the new element to the stored document.
UpdateSave(p) ==
    LET id == req[p].id IN
    /\ req[p].pc = "save"
    /\ enrollments' = [enrollments EXCEPT ![id].certificates =
            Append(@, [certificateId |-> <<id, req[p].cert>>, issuedAt |-> req[p].cert])]
    /\ req' = [req EXCEPT ![p] =
                 [Ended("progress", req[p].student, "none", id, "ok")
                    EXCEPT !.progress = req[p].progress]]
    /\ UNCHANGED <<courses, now>>
    /\ UNCHANGED otherCollections

----------------------------------------------------------------------------
(* PATCH /:id/status, src/server.js:268-291 *)

\* The filter {_id, userId}, src/server.js:278 and 323
MatchesOwnerMutAnyCaller(id, caller) == id \in DOMAIN enrollments

\* The filter {_id, userId}, src/server.js:277-278 and 322-323
MatchesOwner(id, caller) ==
    /\ id \in DOMAIN enrollments
    /\ enrollments[id].student = caller

SetStatusMutResetProgress(p, id, caller, status) ==
    /\ Ready(p)
    /\ IF status \notin validStatuses
       THEN /\ req' = [req EXCEPT ![p] =
                         Ended("status", caller, "none", id, "Invalid status")]
            /\ UNCHANGED <<courses, enrollments, now>>
       ELSE IF ~MatchesOwner(id, caller)
       THEN /\ req' = [req EXCEPT ![p] =
                         Ended("status", caller, "none", id, "Enrollment not found")]
            /\ UNCHANGED <<courses, enrollments, now>>
       ELSE /\ enrollments' = [enrollments EXCEPT ![id].status = status,
                                                   ![id].progress = 0]
            /\ req' = [req EXCEPT ![p] = Ended("status", caller, "none", id, "ok")]
            /\ UNCHANGED <<courses, now>>
    /\ UNCHANGED otherCollections

SetStatus(p, id, caller, status) ==
    /\ Ready(p)
    /\ IF status \notin validStatuses
       THEN /\ req' = [req EXCEPT ![p] =
                         Ended("status", caller, "none", id, "Invalid status")]
            /\ UNCHANGED <<courses, enrollments, now>>
       ELSE IF ~MatchesOwner(id, caller)
       THEN /\ req' = [req EXCEPT ![p] =
                         Ended("status", caller, "none", id, "Enrollment not found")]
            /\ UNCHANGED <<courses, enrollments, now>>
       ELSE /\ enrollments' = [enrollments EXCEPT ![id].status = status]
            /\ req' = [req EXCEPT ![p] = Ended("status", caller, "none", id, "ok")]
            /\ UNCHANGED <<courses, now>>
    /\ UNCHANGED otherCollections

----------------------------------------------------------------------------
(* DELETE /:id, src/server.js:320-346 *)

PendingDecs(c) ==
    Cardinality({q \in Procs : req[q].op = "unenroll" /\ req[q].pc = "dec"
                               /\ req[q].course = c})

Unenroll(p, id, caller) ==
    /\ Ready(p)
    /\ IF ~MatchesOwner(id, caller)
       THEN /\ req' = [req EXCEPT ![p] =
                         Ended("unenroll", caller, "none", id, "Enrollment not found")]
            /\ UNCHANGED <<courses, enrollments, now>>
       ELSE LET c == enrollments[id].course IN
            /\ courses[c].enrollmentCount - PendingDecs(c) > -MinCount
            /\ enrollments' = [enrollments EXCEPT ![id].status = "cancelled"]
            /\ req' = [req EXCEPT ![p] =
                         [IdleReq EXCEPT !.pc = "dec", !.op = "unenroll",
                                         !.student = caller, !.course = c, !.id = id]]
            /\ UNCHANGED <<courses, now>>
    /\ UNCHANGED otherCollections

\* Course.findByIdAndUpdate(enrollment.courseId, {$inc: {enrollmentCount: -1}}),
\* src/server.js:337-340; it waits for a transaction holding the document.
UnenrollDec(p) ==
    LET c == req[p].course IN
    /\ req[p].pc = "dec"
    /\ ~\E q \in Procs : HasPendingInc(q) /\ req[q].course = c
    /\ courses' = [courses EXCEPT ![c].enrollmentCount = @ - 1]
    /\ req' = [MarkStale(req, c, p) EXCEPT ![p] =
                 Ended("unenroll", req[p].student, c, req[p].id,
                       "Successfully unenrolled")]
    /\ UNCHANGED <<enrollments, now>>
    /\ UNCHANGED otherCollections

----------------------------------------------------------------------------
Tick ==
    /\ now < MaxClock
    /\ now' = now + 1
    /\ UNCHANGED <<courses, enrollments, req>>
    /\ UNCHANGED otherCollections

----------------------------------------------------------------------------
(* Initial states and specifications *)

Course(active, max, prereq) ==
    [isActive |-> active, maxEnrollments |-> max, prerequisites |-> prereq,
     enrollmentCount |-> 0]

InitWith(configs) ==
    /\ courses \in configs
    /\ enrollments = <<>>
    /\ req = [p \in Procs |-> IdleReq]
    /\ now = 1
    /\ progressDocs = <<>>
    /\ reviews = <<>>

\* Concurrent enroll requests for one course, and nothing else.
CapacityConfigs ==
    {[A |-> Course(a, m, <<>>)] : a \in BOOLEAN, m \in {Undefined, <<0>>, <<1>>, <<2>>}}

InitCapacity == InitWith(CapacityConfigs)

NextCapacity ==
    \E p \in Procs :
        \/ \E s \in {"s1", "s2", "s3"}, c \in {"A", "Z", "invalid"} : EnrollBegin(p, s, c)
        \/ EnrollRetry(p)
        \/ EnrollInsert(p)
        \/ EnrollInc(p)
        \/ EnrollCommit(p)

SpecCapacity == InitCapacity /\ [][NextCapacity]_vars

\* Enroll requests for any student, next to the owner's requests on the
\* enrollments that exist.
EnrollConfigs ==
    {[A |-> Course(TRUE, m, <<>>)] : m \in {Undefined, <<1>>}}

InitEnroll == InitWith(EnrollConfigs)

NextEnroll ==
    \E p \in Procs :
        \/ \E s \in Students : EnrollBegin(p, s, "A")
        \/ EnrollRetry(p)
        \/ EnrollInsert(p)
        \/ EnrollInc(p)
        \/ EnrollCommit(p)
        \/ \E id \in DOMAIN enrollments :
                UpdateProgress(p, id, enrollments[id].student, 100, Undefined, Undefined)
        \/ UpdateSave(p)
        \/ \E id \in DOMAIN enrollments, st \in validStatuses :
                SetStatus(p, id, enrollments[id].student, st)
        \/ \E id \in DOMAIN enrollments : Unenroll(p, id, enrollments[id].student)
        \/ UnenrollDec(p)

SpecEnroll == InitEnroll /\ [][NextEnroll]_vars

\* One request at a time over three courses, the third with prerequisites.
AdmissionConfigs ==
    {[A |-> Course(TRUE, Undefined, <<>>), B |-> Course(TRUE, Undefined, <<>>),
      C |-> Course(TRUE, m, pre)] :
        m \in {Undefined, <<1>>}, pre \in {<<>>, <<"A">>, <<"A", "B">>}}
    \cup {[A |-> Course(TRUE, Undefined, <<>>), B |-> Course(TRUE, Undefined, <<>>),
            C |-> Course(FALSE, <<1>>, <<"A">>)]}

InitAdmission == InitWith(AdmissionConfigs)

NextAdmission ==
    \/ \E s \in Students, c \in {"A", "B", "C"} : EnrollBegin("p1", s, c)
    \/ EnrollInsert("p1")
    \/ EnrollInc("p1")
    \/ EnrollCommit("p1")
    \/ \E id \in DOMAIN enrollments :
            UpdateProgress("p1", id, enrollments[id].student, 100, Undefined, Undefined)
    \/ UpdateSave("p1")
    \/ \E id \in DOMAIN enrollments :
            SetStatus("p1", id, enrollments[id].student, "cancelled")

SpecAdmission == InitAdmission /\ [][NextAdmission]_vars

\* Concurrent requests of the owner s1 and of another student s2 on the one
\* enrollment of s1, with every kind of input.
ProgressConfigs == {[A |-> Course(TRUE, Undefined, <<>>)]}

InitProgress == InitWith(ProgressConfigs)

\* Request bodies of PATCH /:id/progress: <<progress, completedLessons, timeSpent>>.
UpdateBodies ==
    {<<40, Undefined, Undefined>>, <<40, <<{"l1"}>>, <<1>>>>,
     <<100, <<{}>>, Undefined>>, <<101, Undefined, Undefined>>,
     <<40, Undefined, <<-1>>>>}

\* <<id, caller>>: the owner, another student, and an id no enrollment has.
Targets == {<<1, "s1">>, <<1, "s2">>, <<2, "s1">>}

StatusInputs == {"active", "suspended", "cancelled", "completed"}

NextProgress ==
    \E p \in Procs :
        \/ EnrollBegin(p, "s1", "A")
        \/ EnrollRetry(p)
        \/ EnrollInsert(p)
        \/ EnrollInc(p)
        \/ EnrollCommit(p)
        \/ \E t \in Targets, b \in UpdateBodies :
                UpdateProgress(p, t[1], t[2], b[1], b[2], b[3])
        \/ UpdateSave(p)
        \/ \E t \in Targets, st \in StatusInputs : SetStatus(p, t[1], t[2], st)
        \/ \E t \in Targets : Unenroll(p, t[1], t[2])
        \/ UnenrollDec(p)

SpecProgress == InitProgress /\ [][NextProgress]_vars

\* The same requests with the clock running, served one at a time.
NextSequential ==
    \/ EnrollBegin("p1", "s1", "A")
    \/ EnrollInsert("p1")
    \/ EnrollInc("p1")
    \/ EnrollCommit("p1")
    \/ \E t \in Targets, b \in UpdateBodies :
            UpdateProgress("p1", t[1], t[2], b[1], b[2], b[3])
    \/ UpdateSave("p1")
    \/ \E t \in Targets, st \in StatusInputs : SetStatus("p1", t[1], t[2], st)
    \/ \E t \in Targets : Unenroll("p1", t[1], t[2])
    \/ UnenrollDec("p1")
    \/ Tick

SpecSequential == InitProgress /\ [][NextSequential]_vars

----------------------------------------------------------------------------
(* POST /:id/complete and PUT /:id/progress, src/routes/lesson.js:271-363 *)

\* The Lesson collection: lesson id -> course of the lesson.
Lessons == [l1 |-> "A", l2 |-> "A", l3 |-> "B"]

\* mongoose.Types.ObjectId.isValid(req.params.id), src/routes/lesson.js:274
isValid(l) == l # "invalid"

\* The documents the filter {user, lesson} matches.
ProgressOf(u, l) ==
    {i \in DOMAIN progressDocs :
        progressDocs[i].user = u /\ progressDocs[i].lesson = l}

\* The test of line 289 on the document findOne returned.
AlreadyCompletedMutNever(u, l) == FALSE

AlreadyCompleted(u, l) ==
    \E i \in ProgressOf(u, l) : progressDocs[i].completed

\* The unique index of the Progress schema, src/unnamed/part_000:46: the
\* documents that hold the pair.
ProgressIndexHolders(u, c) ==
    {i \in DOMAIN progressDocs :
        progressDocs[i].user = u /\ progressDocs[i].course = c}

\* findOneAndUpdate(filter, update, {upsert: true, new: true}): the first
\* document the filter matches is updated, and one is inserted when there is
\* none, unless the unique index holds its pair.  set is the $set of the
\* update, doc the document an insert creates.
Upsert(u, l, set, doc) ==
    IF ProgressOf(u, l) # {}
    THEN LET i == CHOOSE j \in ProgressOf(u, l) : \A k \in ProgressOf(u, l) : j <= k IN
         [docs |-> [progressDocs EXCEPT ![i] = set @@ @], error |-> FALSE]
    ELSE IF ProgressIndexHolders(u, doc.course) # {}
    THEN [docs |-> progressDocs, error |-> TRUE]
    ELSE [docs |-> Append(progressDocs, doc), error |-> FALSE]

\* The update of lines 299-306.
CompletionOf(u, l) ==
    [user |-> u, lesson |-> l, course |-> Lessons[l], completed |-> TRUE,
     completedAt |-> now, progress |-> 100]

\* The handler up to the findOne of line 284.
CompleteBegin(p, u, l) ==
    /\ Ready(p)
    /\ req' = [req EXCEPT ![p] =
                 IF ~isValid(l)
                 THEN [Ended("complete", u, "none", NoId, "Invalid lesson ID")
                         EXCEPT !.lesson = l]
                 ELSE IF l \notin DOMAIN Lessons
                 THEN [Ended("complete", u, "none", NoId, "Lesson not found")
                         EXCEPT !.lesson = l]
                 ELSE IF AlreadyCompleted(u, l)
                 THEN [Ended("complete", u, Lessons[l], NoId, "Lesson already completed")
                         EXCEPT !.lesson = l]
                 ELSE [IdleReq EXCEPT !.pc = "upsert", !.op = "complete",
                                      !.student = u, !.course = Lessons[l],
                                      !.lesson = l]]
    /\ UNCHANGED <<courses, enrollments, now, progressDocs, reviews>>

\* A completion that also reconciles the course-level record of the user.
CompleteUpsertMutReconcile(p) ==
    LET u == req[p].student
        l == req[p].lesson
        r == Upsert(u, l, CompletionOf(u, l), CompletionOf(u, l) @@ [timeSpent |-> 0]) IN
    /\ req[p].pc = "upsert"
    /\ progressDocs' = r.docs
    /\ enrollments' = [i \in DOMAIN enrollments |->
                         IF enrollments[i].student = u
                                /\ enrollments[i].course = req[p].course
                         THEN [enrollments[i] EXCEPT !.completedLessons = @ \cup {l}]
                         ELSE enrollments[i]]
    /\ req' = [req EXCEPT ![p] =
                 [Ended("complete", u, req[p].course, NoId,
                        IF r.error
                        THEN "Failed to mark lesson as completed"
                        ELSE "Lesson marked as completed")
                    EXCEPT !.lesson = l]]
    /\ UNCHANGED <<courses, now, reviews>>

\* Progress.findOneAndUpdate(..., {upsert: true, new: true}),
\* src/routes/lesson.js:297-308
CompleteUpsert(p) ==
    LET u == req[p].student
        l == req[p].lesson
        r == Upsert(u, l, CompletionOf(u, l), CompletionOf(u, l) @@ [timeSpent |-> 0]) IN
    /\ req[p].pc = "upsert"
    /\ progressDocs' = r.docs
    /\ req' = [req EXCEPT ![p] =
                 [Ended("complete", u, req[p].course, NoId,
                        IF r.error
                        THEN "Failed to mark lesson as completed"
                        ELSE "Lesson marked as completed")
                    EXCEPT !.lesson = l]]
    /\ UNCHANGED <<courses, enrollments, now, reviews>>

\* The update of lines 340-349.
LessonProgressOf(u, l, percent) ==
    [user |-> u, lesson |-> l, course |-> Lessons[l], progress |-> percent,
     timeSpent |-> 0, completed |-> (percent >= 100),
     completedAt |-> IF percent >= 100 THEN now ELSE NoDate]

\* PUT /:id/progress, src/routes/lesson.js:323-363
UpdateLessonProgress(p, u, l, percent) ==
    /\ Ready(p)
    /\ IF percent < 0 \/ percent > 100
       THEN /\ req' = [req EXCEPT ![p] =
                         [Ended("lessonProgress", u, "none", NoId,
                                "Progress must be between 0 and 100")
                            EXCEPT !.lesson = l, !.progress = percent]]
            /\ UNCHANGED progressDocs
       ELSE IF l \notin DOMAIN Lessons
       THEN /\ req' = [req EXCEPT ![p] =
                         [Ended("lessonProgress", u, "none", NoId, "Lesson not found")
                            EXCEPT !.lesson = l, !.progress = percent]]
            /\ UNCHANGED progressDocs
       ELSE LET r == Upsert(u, l, LessonProgressOf(u, l, percent),
                            LessonProgressOf(u, l, percent)) IN
            /\ progressDocs' = r.docs
            /\ req' = [req EXCEPT ![p] =
                         [Ended("lessonProgress", u, Lessons[l], NoId,
                                IF r.error
                                THEN "Failed to update progress"
                                ELSE "Progress updated successfully")
                            EXCEPT !.lesson = l, !.progress = percent]]
    /\ UNCHANGED <<courses, enrollments, now, reviews>>

\* Requests on the lessons of two courses, on a lesson that does not exist and
\* on an id that is no ObjectId, with the clock running: <<user, lesson>>.
LessonInputs ==
    {<<"s1", "l1">>, <<"s1", "l2">>, <<"s1", "l3">>, <<"s1", "l9">>,
     <<"s1", "invalid">>, <<"s2", "l1">>}

NextLesson ==
    \/ \E p \in Procs :
        \/ \E t \in LessonInputs : CompleteBegin(p, t[1], t[2])
        \/ CompleteUpsert(p)
        \/ \E l \in {"l1", "l9"}, percent \in {50, 100, 101} :
                UpdateLessonProgress(p, "s1", l, percent)
    \/ Tick

SpecLesson == InitWith(ProgressConfigs) /\ [][NextLesson]_vars

\* Lesson completions of two students next to their enrollments in course A
\* and the course-level progress they record.
NextLessonFrame ==
    \E p \in Procs :
        \/ \E s \in Students : EnrollBegin(p, s, "A")
        \/ EnrollRetry(p)
        \/ EnrollInsert(p)
        \/ EnrollInc(p)
        \/ EnrollCommit(p)
        \/ \E id \in DOMAIN enrollments :
                UpdateProgress(p, id, enrollments[id].student, 40, <<{"l2"}>>, <<1>>)
        \/ \E t \in {<<"s1", "l1">>, <<"s1", "l3">>, <<"s2", "l1">>} :
                CompleteBegin(p, t[1], t[2])
        \/ CompleteUpsert(p)

SpecLessonFrame == InitWith(ProgressConfigs) /\ [][NextLessonFrame]_vars

----------------------------------------------------------------------------
(* Review and its rating aggregate, src/models/Review.js *)

\* A number that need not be an integer: num / den.  0 is 0 / 1.
Zero == [num |-> 0, den |-> 1]

RECURSIVE SumRatings(_)
SumRatings(docs) ==
    IF docs = <<>> THEN 0 ELSE Head(docs).rating + SumRatings(Tail(docs))

\* The pipeline of lines 40-51: $match, then $group by course with $avg and
\* $sum: 1.  No matching document gives no group: the result is empty.
MatchedMutAll(c) == SelectSeq(reviews, LAMBDA r : r.course = c)

Matched(c) == SelectSeq(reviews, LAMBDA r : r.course = c /\ r.isApproved)

Aggregate(c) ==
    IF Matched(c) = <<>>
    THEN <<>>
    ELSE <<[averageRating |-> [num |-> SumRatings(Matched(c)), den |-> Len(Matched(c))],
            totalReviews |-> Len(Matched(c))]>>

\* result[0]?.averageRating || 0 and result[0]?.totalReviews || 0, lines 55-56
RatingOr0(result) ==
    IF result = <<>> \/ result[1].averageRating.num = 0
    THEN Zero
    ELSE result[1].averageRating

TotalOr0(result) == IF result = <<>> THEN 0 ELSE result[1].totalReviews

\* The unique index {course: 1, user: 1}, line 36.
ReviewOf(c, u) ==
    {i \in DOMAIN reviews : reviews[i].course = c /\ reviews[i].user = u}

\* The task a post hook starts on the document d it ran for (lines 64-71): the
\* request is answered and getAverageRating(this.course) runs on, awaited by
\* nobody.
Recompute(d, r) ==
    [IdleReq EXCEPT !.pc = "aggregate", !.op = "review", !.student = d.user,
                    !.course = d.course, !.resp = r, !.doc = <<d>>]

\* save() of a new Review document: schema validation, the unique index, the
\* insert, then the post-save hook.
ReviewCreate(p, u, c, rating, approved) ==
    /\ Ready(p)
    /\ IF rating < 1 \/ rating > 5
       THEN /\ req' = [req EXCEPT ![p] = Ended("review", u, c, NoId, "ValidationError")]
            /\ UNCHANGED reviews
       ELSE IF ReviewOf(c, u) # {}
       THEN /\ req' = [req EXCEPT ![p] = Ended("review", u, c, NoId, "E11000 duplicate key")]
            /\ UNCHANGED reviews
       ELSE LET d == [course |-> c, user |-> u, rating |-> rating,
                      isApproved |-> approved] IN
            /\ reviews' = Append(reviews, d)
            /\ req' = [req EXCEPT ![p] = Recompute(d, "saved")]
    /\ UNCHANGED <<courses, enrollments, now, progressDocs>>

\* save() of a stored Review whose isApproved was changed, then the hook.
ReviewSetApproved(p, i, approved) ==
    /\ Ready(p)
    /\ i \in DOMAIN reviews
    /\ reviews' = [reviews EXCEPT ![i].isApproved = approved]
    /\ req' = [req EXCEPT ![p] = Recompute(reviews'[i], "saved")]
    /\ UNCHANGED <<courses, enrollments, now, progressDocs>>

\* await this.aggregate([...]), lines 40-51
RecomputeAggregate(p) ==
    /\ req[p].pc = "aggregate"
    /\ req' = [req EXCEPT ![p] = [@ EXCEPT !.pc = "write", !.result = Aggregate(req[p].course)]]
    /\ UNCHANGED <<courses, enrollments, now, progressDocs, reviews>>

RecomputeWriteMutSkipEmpty(p) ==
    /\ req[p].pc = "write"
    /\ courses' = IF req[p].result = <<>>
                  THEN courses
                  ELSE [courses EXCEPT ![req[p].course] =
                          [@ EXCEPT !.averageRating = RatingOr0(req[p].result),
                                    !.totalReviews = TotalOr0(req[p].result)]]
    /\ req' = [req EXCEPT ![p] = [@ EXCEPT !.pc = "done"]]
    /\ UNCHANGED <<enrollments, now, progressDocs, reviews>>

\* await this.model('Course').findByIdAndUpdate(courseId, {...}), lines 54-57
RecomputeWrite(p) ==
    /\ req[p].pc = "write"
    /\ courses' = [courses EXCEPT ![req[p].course] =
                     [@ EXCEPT !.averageRating = RatingOr0(req[p].result),
                               !.totalReviews = TotalOr0(req[p].result)]]
    /\ req' = [req EXCEPT ![p] = [@ EXCEPT !.pc = "done"]]
    /\ UNCHANGED <<enrollments, now, progressDocs, reviews>>

\* The aggregate fails (the store is unreachable): line 40 is outside the try
\* block, so the promise of getAverageRating is rejected, and the hooks neither
\* await nor catch it.
RecomputeAggregateFail(p) ==
    /\ req[p].pc = "aggregate"
    /\ req' = [req EXCEPT ![p] = [@ EXCEPT !.pc = "rejected"]]
    /\ UNCHANGED <<courses, enrollments, now, progressDocs, reviews>>

\* findByIdAndUpdate fails: the catch block of lines 58-60 logs the error.
RecomputeWriteFail(p) ==
    /\ req[p].pc = "write"
    /\ req' = [req EXCEPT ![p] = [@ EXCEPT !.pc = "logged"]]
    /\ UNCHANGED <<courses, enrollments, now, progressDocs, reviews>>

\* The sequence without its i-th element.
RemoveAt(seq, i) == SubSeq(seq, 1, i - 1) \o SubSeq(seq, i + 1, Len(seq))

\* A stored Review is deleted, then the post-remove hook (lines 69-71).
ReviewRemove(p, i) ==
    /\ Ready(p)
    /\ i \in DOMAIN reviews
    /\ reviews' = RemoveAt(reviews, i)
    /\ req' = [req EXCEPT ![p] = Recompute(reviews[i], "removed")]
    /\ UNCHANGED <<courses, enrollments, now, progressDocs>>

\* Two courses that have no review yet.
ReviewConfigs ==
    {[A |-> [averageRating |-> Zero, totalReviews |-> 0],
      B |-> [averageRating |-> Zero, totalReviews |-> 0]]}

\* The reviews that are written: <<user, course, rating, isApproved>>.
ReviewBodies ==
    {<<"s1", "A", 2, TRUE>>, <<"s1", "A", 5, FALSE>>, <<"s2", "A", 5, TRUE>>,
     <<"s2", "A", 0, TRUE>>, <<"s1", "B", 2, FALSE>>}

NextReview ==
    \E p \in Procs :
        \/ \E b \in ReviewBodies : ReviewCreate(p, b[1], b[2], b[3], b[4])
        \/ \E i \in DOMAIN reviews, approved \in BOOLEAN : ReviewSetApproved(p, i, approved)
        \/ RecomputeAggregate(p)
        \/ RecomputeWrite(p)

SpecReview == InitWith(ReviewConfigs) /\ [][NextReview]_vars

\* Review writes made one after the other, each when the recomputation of the
\* one before has ended, with recomputations that can fail.
NextReviewWrites ==
    \/ \E b \in ReviewBodies : ReviewCreate("p1", b[1], b[2], b[3], b[4])
    \/ \E i \in DOMAIN reviews, approved \in BOOLEAN : ReviewSetApproved("p1", i, approved)
    \/ \E i \in DOMAIN reviews : ReviewRemove("p1", i)
    \/ RecomputeAggregate("p1")
    \/ RecomputeAggregateFail("p1")
    \/ RecomputeWrite("p1")
    \/ RecomputeWriteFail("p1")

SpecReviewWrites == InitWith(ReviewConfigs) /\ [][NextReviewWrites]_vars

----------------------------------------------------------------------------
(* GET /stats/dashboard, src/server.js:294-317 *)

\* $match: { userId: new mongoose.Types.ObjectId(req.user.id) }
MatchUserMutAll(u) == enrollments

MatchUser(u) == SelectSeq(enrollments, LAMBDA e : e.student = u)

\* $group by status: one group per status met, each document adding 1 to
\* count, its progress to the sum and the number $avg divides by, and its
\* timeSpent to totalTimeSpent.
RECURSIVE GroupByStatus(_, _)
GroupByStatus(docs, groups) ==
    IF docs = <<>> THEN groups
    ELSE LET e == Head(docs)
             g == IF e.status \in DOMAIN groups
                  THEN groups[e.status]
                  ELSE [count |-> 0, avgProgress |-> [num |-> 0, den |-> 0],
                        totalTimeSpent |-> 0]
             h == [count |-> g.count + 1,
                   avgProgress |-> [num |-> g.avgProgress.num + e.progress,
                                    den |-> g.avgProgress.den + 1],
                   totalTimeSpent |-> g.totalTimeSpent + e.timeSpent] IN
         GroupByStatus(Tail(docs),
                       [st \in DOMAIN groups \cup {e.status} |->
                            IF st = e.status THEN h ELSE groups[st]])

\* The aggregate of lines 296-306.
Dashboard(p, u) ==
    /\ Ready(p)
    /\ req' = [req EXCEPT ![p] =
                 [IdleReq EXCEPT !.pc = "recent", !.op = "stats", !.student = u,
                                 !.result = <<GroupByStatus(MatchUser(u), <<>>)>>]]
    /\ UNCHANGED <<courses, enrollments, now, progressDocs, reviews>>

\* Enrollment.find({userId}).sort({updatedAt: -1}).limit(5) of lines 308-311
\* (the ids it returns, in no order), then res.json({stats, recentActivity}).
DashboardRecent(p) ==
    /\ req[p].pc = "recent"
    /\ req' = [req EXCEPT ![p] =
                 [@ EXCEPT !.pc = "done", !.resp = "ok",
                           !.result = Append(@,
                                {i \in DOMAIN enrollments :
                                    enrollments[i].student = req[p].student})]]
    /\ UNCHANGED <<courses, enrollments, now, progressDocs, reviews>>

\* Two students enroll in two courses, record progress and suspend, and read
\* their dashboards while the requests of the other are in flight.
DashboardConfigs ==
    {[A |-> Course(TRUE, Undefined, <<>>), B |-> Course(TRUE, Undefined, <<>>)]}

DashboardEnrolls == {<<"s1", "A">>, <<"s1", "B">>, <<"s2", "A">>}

NextDashboard ==
    \E p \in Procs :
        \/ \E t \in DashboardEnrolls : EnrollBegin(p, t[1], t[2])
        \/ EnrollRetry(p)
        \/ EnrollInsert(p)
        \/ EnrollInc(p)
        \/ EnrollCommit(p)
        \/ \E id \in DOMAIN enrollments :
                UpdateProgress(p, id, enrollments[id].student, 40, Undefined, <<1>>)
        \/ \E id \in DOMAIN enrollments :
                SetStatus(p, id, enrollments[id].student, "suspended")
        \/ \E u \in Students : Dashboard(p, u)
        \/ DashboardRecent(p)

SpecDashboard == InitWith(DashboardConfigs) /\ [][NextDashboard]_vars

----------------------------------------------------------------------------
(* Claims *)

Limit(c) == courses[c].maxEnrollments

\* An enroll request that has passed the four checks on a snapshot that is
\* still current.
Admitted(p) ==
    /\ req[p].op = "enroll"
    /\ \/ req[p].pc = "commit"
       \/ req[p].pc \in {"insert", "inc"} /\ ~req[p].stale

\* C1: for every course with maxEnrollments = N, at most N enrollment requests
\* succeed, N = 0 included (under SpecCapacity every success is an active
\* enrollment of the course).
C1_AtMostNSucceed ==
    \A c \in DOMAIN courses :
        Limit(c) # Undefined => currentEnrollments(c) <= Limit(c)[1]

\* C1 for the limits the capacity check of the code honours (N >= 1): at most
\* N enrollment requests succeed however the requests interleave, and a request
\* that finds N enrollments is not admitted: it fails with 'Course enrollment
\* is full'.
C1_CapacityHolds ==
    \A c \in DOMAIN courses :
        Truthy(Limit(c)) =>
            /\ currentEnrollments(c) <= Limit(c)[1]
            /\ \A p \in Procs :
                Admitted(p) /\ req[p].course = c => currentEnrollments(c) < Limit(c)[1]
            /\ \A p \in Procs :
                (/\ req[p].op = "enroll"
                 /\ req[p].course = c
                 /\ req[p].resp = "Course enrollment is full")
                    => currentEnrollments(c) >= Limit(c)[1]

\* Two requests raced for the last seat: one created the enrollment, the other
\* passed the checks on its snapshot and lost the write conflict.
C1_Witness ==
    \E p, q \in Procs :
        /\ req[p].resp = "created"
        /\ req[q].pc = "retry"
        /\ req[q].course = req[p].course
        /\ req[q].student # req[p].student
        /\ Truthy(Limit(req[q].course))
        /\ currentEnrollments(req[q].course) = Limit(req[q].course)[1]

\* The fields of the request in slot p changed in this step (the stale mark
\* is set by the writes of others).
Acted(p) == [req'[p] EXCEPT !.stale = FALSE] # [req[p] EXCEPT !.stale = FALSE]

\* C2: in every reachable state each (student, course) pair has at most one
\* Enrollment whose status is not cancelled.
C2_OneNonCancelledPerPair ==
    \A i, j \in DOMAIN enrollments :
        (/\ enrollments[i].student = enrollments[j].student
         /\ enrollments[i].course = enrollments[j].course
         /\ enrollments[i].status # "cancelled"
         /\ enrollments[j].status # "cancelled") => i = j

\* A student whose enrollment is suspended asked to enroll again and the
\* unique index refused the second document.
C2_Witness ==
    \E p \in Procs :
        /\ req[p].op = "enroll"
        /\ req[p].resp = "E11000 duplicate key"
        /\ \E i \in IndexHolders(req[p].student, req[p].course) :
                enrollments[i].status = "suspended"

\* An enroll request that has written its Enrollment, committed or not.
Wrote(p) ==
    /\ req[p].op = "enroll"
    /\ req[p].pc \in {"inc", "commit"} \/ req[p].resp = "created"

\* C3: two enrollment requests for the same (student, course) never both
\* succeed: no two requests have both written an Enrollment for the pair, a
\* request writes only while no Enrollment of the pair is stored, and a request
\* answered 'created' leaves exactly one Enrollment of the pair.
C3_OneWriterPerPair ==
    /\ \A p, q \in Procs :
        (/\ p # q
         /\ Wrote(p)
         /\ Wrote(q)
         /\ req[p].student = req[q].student) => req[p].course # req[q].course
    /\ \A p \in Procs :
        HasPendingInsert(p) => IndexHolders(req[p].student, req[p].course) = {}
    /\ \A p \in Procs :
        (req[p].op = "enroll" /\ req[p].resp = "created")
            => Cardinality(IndexHolders(req[p].student, req[p].course)) = 1

\* Two requests for the same pair ran concurrently: one created the
\* Enrollment, the other was refused and answered with a conflict.
C3_Witness ==
    \E p, q \in Procs :
        /\ p # q
        /\ req[p].resp = "created"
        /\ req[q].op = "enroll"
        /\ req[q].pc = "retry"
        /\ req[q].student = req[p].student
        /\ req[q].course = req[p].course

HasCompleted(s, k) ==
    \E i \in DOMAIN enrollments :
        /\ enrollments[i].student = s
        /\ enrollments[i].course = k
        /\ enrollments[i].status = "completed"

MissingPrerequisites(s, c) ==
    {k \in Range(courses[c].prerequisites) : ~HasCompleted(s, k)}

\* C4: an enrollment request is admitted and succeeds only if the student has
\* a completed enrollment in every prerequisite of the course, and it is
\* answered 'Prerequisites not met' only if one is missing.
C4_PrerequisitesRequired ==
    \A p \in Procs :
        req[p].op = "enroll" =>
            /\ (req[p].pc \in {"insert", "inc", "commit"} \/ req[p].resp = "created")
                  => MissingPrerequisites(req[p].student, req[p].course) = {}
            /\ req[p].resp = "Prerequisites not met"
                  => MissingPrerequisites(req[p].student, req[p].course) # {}

\* Prerequisites [A, B], the student has completed A only: rejected.
C4_Witness ==
    \E p \in Procs :
        /\ req[p].resp = "Prerequisites not met"
        /\ courses[req[p].course].prerequisites = <<"A", "B">>
        /\ MissingPrerequisites(req[p].student, req[p].course) = {"B"}

\* The outcome the four checks have in the order course-available, capacity,
\* duplicate, prerequisites.
FirstFailingCheck(s, c) ==
    CASE c \notin DOMAIN courses -> "Course not found or inactive"
      [] c \in DOMAIN courses /\ ~courses[c].isActive -> "Course not found or inactive"
      [] OTHER ->
           CASE Truthy(Limit(c)) /\ currentEnrollments(c) >= Limit(c)[1]
                    -> "Course enrollment is full"
             [] OTHER ->
                  CASE \E i \in IndexHolders(s, c) :
                            enrollments[i].status \in {"active", "completed"}
                           -> "Already enrolled in this course"
                    [] OTHER ->
                         IF MissingPrerequisites(s, c) # {}
                         THEN "Prerequisites not met"
                         ELSE "ok"

AdmissionErrors ==
    {"Course not found or inactive", "Course enrollment is full",
     "Already enrolled in this course", "Prerequisites not met"}

\* C5: the error of a rejected enrollment request is that of the first failing
\* check in the order course-available, capacity, duplicate, prerequisites, and
\* a request that gets past the checks has none failing.
C5_FirstFailureWins ==
    \A p \in Procs :
        req[p].op = "enroll" =>
            /\ req[p].resp \in AdmissionErrors
                  => req[p].resp = FirstFailingCheck(req[p].student, req[p].course)
            /\ req[p].pc \in {"insert", "inc", "commit"}
                  => FirstFailingCheck(req[p].student, req[p].course) = "ok"

\* A student already enrolled in a full course is told the course is full.
C5_Witness ==
    \E p \in Procs :
        /\ req[p].op = "enroll"
        /\ req[p].resp = "Course enrollment is full"
        /\ existingEnrollment(req[p].student, req[p].course)

\* C6: the step that answers an enrollment request with 'created' adds exactly
\* one Enrollment for (student, course) with status active, progress 0, no
\* completed lessons, no certificates and timeSpent 0, and adds exactly 1 to
\* the enrollmentCount of that course, in that same step.
C6_CreateStep ==
    \A p \in Procs :
        (Acted(p) /\ req'[p].op = "enroll" /\ req'[p].resp = "created") =>
            LET s == req'[p].student
                c == req'[p].course IN
            /\ enrollments' = Append(enrollments,
                    [student |-> s, course |-> c, status |-> "active",
                     progress |-> 0, completedLessons |-> {}, timeSpent |-> 0,
                     certificates |-> <<>>, completedAt |-> NoDate])
            /\ Cardinality({i \in DOMAIN enrollments' :
                    enrollments'[i].student = s /\ enrollments'[i].course = c}) = 1
            /\ courses' = [courses EXCEPT ![c].enrollmentCount = @ + 1]

C6_Create == [][C6_CreateStep]_vars

C6_Witness ==
    \E p \in Procs :
        /\ req[p].op = "enroll"
        /\ req[p].resp = "created"
        /\ courses[req[p].course].enrollmentCount = 1
        /\ \E i \in DOMAIN enrollments :
            enrollments[i] = [student |-> req[p].student, course |-> req[p].course,
                              status |-> "active", progress |-> 0,
                              completedLessons |-> {}, timeSpent |-> 0,
                              certificates |-> <<>>, completedAt |-> NoDate]

\* C7: a step of an enrollment request that does not answer 'created' (a
\* failed check, a duplicate key, an aborted and re-run transaction) leaves
\* the Enrollment records and every enrollmentCount as they were, and no
\* enrollmentCount grows in a step that does not add the Enrollment.
C7_NoPartialWriteStep ==
    /\ \A p \in Procs :
        (Acted(p) /\ req'[p].op = "enroll" /\ req'[p].resp # "created") =>
            enrollments' = enrollments /\ courses' = courses
    /\ \A c \in DOMAIN courses :
        courses'[c].enrollmentCount > courses[c].enrollmentCount =>
            /\ Len(enrollments') = Len(enrollments) + 1
            /\ enrollments'[Len(enrollments')].course = c

C7_NoPartialWrite == [][C7_NoPartialWriteStep]_vars

\* A transaction that had inserted its Enrollment was aborted by a write
\* conflict on the Course document: nothing of it is stored.
C7_Witness ==
    \E p \in Procs :
        /\ req[p].op = "enroll"
        /\ req[p].pc = "retry"
        /\ req[p].stale
        /\ IndexHolders(req[p].student, req[p].course) = {}
        /\ courses[req[p].course].enrollmentCount = currentEnrollments(req[p].course)

\* The request in slot p is an answered PATCH /:id/progress with progress 100
\* sent by the owner of enrollment req[p].id.
AnsweredCompletion(p) ==
    /\ req[p].op = "progress"
    /\ req[p].pc = "done"
    /\ req[p].progress = 100
    /\ req[p].id \in DOMAIN enrollments
    /\ enrollments[req[p].id].student = req[p].student

\* C8: when updateProgress with progress = 100 on an active enrollment has
\* answered, the enrollment is completed, its completedAt is set and it holds
\* exactly one certificate; a further updateProgress with progress = 100 on
\* that completed enrollment leaves exactly one certificate.
C8_CompletionIssuesOneCertificate ==
    \A p \in Procs :
        AnsweredCompletion(p) =>
            LET e == enrollments[req[p].id] IN
            /\ req[p].resp = "ok" =>
                /\ e.status = "completed"
                /\ e.progress = 100
                /\ e.completedAt # NoDate
                /\ Len(e.certificates) = 1
            /\ (req[p].resp = "Active enrollment not found" /\ e.status = "completed")
                => Len(e.certificates) = 1

\* updateProgress with progress = 100 was invoked again on the completed
\* enrollment.
C8_Witness ==
    \E p \in Procs :
        /\ AnsweredCompletion(p)
        /\ req[p].resp = "Active enrollment not found"
        /\ enrollments[req[p].id].status = "completed"
        /\ Len(enrollments[req[p].id].certificates) = 1

\* C9: completion and certificate issuance are one atomic step: in no
\* reachable state is a completed enrollment without its certificate, and none
\* ever holds two.
C9_AtomicCompletion ==
    \A i \in DOMAIN enrollments :
        enrollments[i].status = "completed" => Len(enrollments[i].certificates) = 1

\* C10: an updateProgress request whose id and caller do not match an active
\* enrollment owned by the caller (unknown id, another student's enrollment,
\* status completed, suspended or cancelled) changes no enrollment and no
\* course, and a valid one is answered 'Active enrollment not found'.
C10_OnlyActiveOwnedStep ==
    \A p \in Procs :
        (Ready(p) /\ Acted(p) /\ req'[p].op = "progress") =>
            LET id == req'[p].id
                eligible == /\ id \in DOMAIN enrollments
                            /\ enrollments[id].student = req'[p].student
                            /\ enrollments[id].status = "active" IN
            ~eligible =>
                /\ enrollments' = enrollments
                /\ courses' = courses
                /\ req'[p].pc = "done"
                /\ \A b \in UpdateBodies :
                        (/\ progressValidation(b[1], b[3])
                         /\ UpdateProgress(p, id, req'[p].student, b[1], b[2], b[3]))
                            => req'[p].resp = "Active enrollment not found"

AllowedTransitions ==
    {<<"active", "completed">>, <<"active", "suspended">>, <<"active", "dropped">>,
     <<"active", "cancelled">>, <<"suspended", "active">>, <<"suspended", "cancelled">>}

\* C11: an enrollment's status changes only along active -> {completed,
\* suspended, dropped, cancelled} and suspended -> {active, cancelled}; no
\* request moves an enrollment out of completed or cancelled.
C11_TransitionStep ==
    \A i \in DOMAIN enrollments :
        enrollments'[i].status # enrollments[i].status =>
            <<enrollments[i].status, enrollments'[i].status>> \in AllowedTransitions

C11_OnlyAllowedTransitions == [][C11_TransitionStep]_vars

\* C12: setStatus(suspended) by the owner of an active enrollment, and
\* setStatus(active) by the owner of a suspended one, are answered ok and
\* change the status and nothing else: progress, completedLessons, timeSpent
\* and certificates are as they were when the enrollment is active again.
C12_SuspendResumeStep ==
    \A p \in Procs :
        (Ready(p) /\ Acted(p) /\ req'[p].op = "status") =>
            \A t \in Targets, st \in {"suspended", "active"} :
                (/\ MatchesOwner(t[1], t[2])
                 /\ <<enrollments[t[1]].status, st>> \in
                        {<<"active", "suspended">>, <<"suspended", "active">>}
                 /\ SetStatus(p, t[1], t[2], st)) =>
                    /\ req'[p].resp = "ok"
                    /\ enrollments' = [enrollments EXCEPT ![t[1]].status = st]
                    /\ enrollments'[t[1]].progress = enrollments[t[1]].progress
                    /\ enrollments'[t[1]].completedLessons =
                            enrollments[t[1]].completedLessons
                    /\ enrollments'[t[1]].timeSpent = enrollments[t[1]].timeSpent
                    /\ enrollments'[t[1]].certificates = enrollments[t[1]].certificates

C12_SuspendResume == [][C12_SuspendResumeStep]_vars

\* An enrollment that had progress, lessons and time spent was suspended by
\* its owner and holds them still.
C12_Witness ==
    \E p \in Procs :
        /\ req[p].op = "status"
        /\ req[p].resp = "ok"
        /\ req[p].id \in DOMAIN enrollments
        /\ enrollments[req[p].id].status = "suspended"
        /\ enrollments[req[p].id].progress = 40
        /\ enrollments[req[p].id].completedLessons = {"l1"}
        /\ enrollments[req[p].id].timeSpent = 1

\* C13: the step that moves an enrollment to cancelled, through setStatus or
\* through unenroll, takes exactly 1 from the enrollmentCount of its course.
C13_CancelStep ==
    \A i \in DOMAIN enrollments :
        (enrollments[i].status # "cancelled" /\ enrollments'[i].status = "cancelled") =>
            courses' = [courses EXCEPT ![enrollments[i].course].enrollmentCount = @ - 1]

C13_CancelDecrements == [][C13_CancelStep]_vars

\* C14: in every reachable state an enrollment with status completed has
\* progress 100 and completedAt set.
C14_CompletedHasFullProgress ==
    \A i \in DOMAIN enrollments :
        enrollments[i].status = "completed" =>
            enrollments[i].progress = 100 /\ enrollments[i].completedAt # NoDate

\* An enrollment was completed by updateProgress with progress 100, and a
\* setStatus asking for completed was refused.
C14_Witness ==
    /\ \E i \in DOMAIN enrollments :
        /\ enrollments[i].status = "completed"
        /\ enrollments[i].progress = 100
        /\ enrollments[i].completedAt # NoDate
    /\ \E p \in Procs : req[p].op = "status" /\ req[p].resp = "Invalid status"

\* C15: in every reachable state an enrollment that holds a certificate has
\* status completed.
C15_CertificatesOnlyIfCompleted ==
    \A i \in DOMAIN enrollments :
        Len(enrollments[i].certificates) > 0 => enrollments[i].status = "completed"

\* C16: completedLessons never shrinks: after every step the completedLessons
\* of each enrollment is a superset of what it was.
C16_NeverShrinksStep ==
    \A i \in DOMAIN enrollments :
        enrollments[i].completedLessons \subseteq enrollments'[i].completedLessons

C16_NeverShrinks == [][C16_NeverShrinksStep]_vars

\* C16 as the router has it: an updateProgress that matches an active
\* enrollment of the caller sets completedLessons to the array of the request
\* when the request has one and leaves it otherwise, and no other step of any
\* request changes completedLessons.
C16_SetAsGivenStep ==
    /\ \A p \in Procs :
        (Ready(p) /\ Acted(p) /\ req'[p].op = "progress") =>
            \A t \in Targets, b \in UpdateBodies :
                (/\ MatchesActive(t[1], t[2])
                 /\ progressValidation(b[1], b[3])
                 /\ UpdateProgress(p, t[1], t[2], b[1], b[2], b[3])) =>
                    enrollments'[t[1]].completedLessons =
                        IF b[2] # Undefined
                        THEN b[2][1]
                        ELSE enrollments[t[1]].completedLessons
    /\ \A i \in DOMAIN enrollments :
        enrollments'[i].completedLessons # enrollments[i].completedLessons =>
            \E p \in Procs :
                /\ Ready(p)
                /\ req'[p].op = "progress"
                /\ req'[p].id = i
                /\ req'[p].student = enrollments[i].student
                /\ enrollments[i].status = "active"

C16_SetAsGiven == [][C16_SetAsGivenStep]_vars

\* Time is spent only in requests that also record lesson l1, so an
\* enrollment with time spent and no completed lesson had l1 and lost it to a
\* later request with an empty array.
C16_Witness ==
    \E i \in DOMAIN enrollments :
        enrollments[i].timeSpent > 0 /\ enrollments[i].completedLessons = {}

\* The timeSpent value of a request body, 0 when the body has none.
Delta(timeSpent) == IF timeSpent # Undefined THEN timeSpent[1] ELSE 0

\* C17: an updateProgress that matches an active enrollment of the caller with
\* time-spent value d >= 0 leaves timeSpent = previous timeSpent + d, a request
\* with a negative value changes nothing, and no step of any request makes
\* timeSpent smaller.
C17_TimeSpentStep ==
    /\ \A p \in Procs :
        (Ready(p) /\ Acted(p) /\ req'[p].op = "progress") =>
            \A t \in Targets, b \in UpdateBodies :
                (/\ MatchesActive(t[1], t[2])
                 /\ UpdateProgress(p, t[1], t[2], b[1], b[2], b[3])) =>
                    IF Delta(b[3]) >= 0 /\ b[1] \in 0..100
                    THEN enrollments'[t[1]].timeSpent =
                            enrollments[t[1]].timeSpent + Delta(b[3])
                    ELSE enrollments' = enrollments
    /\ \A i \in DOMAIN enrollments :
        enrollments'[i].timeSpent >= enrollments[i].timeSpent

C17_TimeSpentAdded == [][C17_TimeSpentStep]_vars

\* Two requests with time-spent value 1 were applied to one enrollment.
C17_Witness ==
    \E i \in DOMAIN enrollments : enrollments[i].timeSpent = 2

\* C18: after every step every enrollment's progress is in 0..100, and an
\* updateProgress request with a progress outside 0..100 is answered with a
\* validation error and changes no enrollment.
C18_ProgressRangeStep ==
    /\ \A i \in DOMAIN enrollments' : enrollments'[i].progress \in 0..100
    /\ \A p \in Procs :
        (/\ Ready(p)
         /\ Acted(p)
         /\ req'[p].op = "progress"
         /\ req'[p].progress \notin 0..100) =>
            /\ req'[p].resp = "Validation failed"
            /\ enrollments' = enrollments
            /\ courses' = courses

C18_ProgressRange == [][C18_ProgressRangeStep]_vars

\* The owner of an active enrollment with progress 40 sent progress 101 and
\* was refused.
C18_Witness ==
    \E p \in Procs :
        /\ req[p].op = "progress"
        /\ req[p].progress = 101
        /\ req[p].resp = "Validation failed"
        /\ MatchesActive(req[p].id, req[p].student)
        /\ enrollments[req[p].id].progress = 40

\* C19: a completeLesson request made for a (user, lesson) pair whose Progress
\* record is completed is answered with the existing record and changes no
\* Progress record (completedAt is not rewritten): calling again after a
\* completion leaves the stored state as the first call left it.
C19_IdempotentStep ==
    \A p \in Procs :
        (/\ Ready(p)
         /\ Acted(p)
         /\ req'[p].op = "complete"
         /\ \E i \in DOMAIN progressDocs :
                /\ progressDocs[i].user = req'[p].student
                /\ progressDocs[i].lesson = req'[p].lesson
                /\ progressDocs[i].completed) =>
            /\ req'[p].pc = "done"
            /\ req'[p].resp = "Lesson already completed"
            /\ progressDocs' = progressDocs

C19_Idempotent == [][C19_IdempotentStep]_vars

\* A lesson completed at an earlier time was completed again: the request was
\* answered with the existing record, whose completedAt is the earlier time.
C19_Witness ==
    \E p \in Procs :
        /\ req[p].op = "complete"
        /\ req[p].resp = "Lesson already completed"
        /\ \E i \in DOMAIN progressDocs :
                /\ progressDocs[i].user = req[p].student
                /\ progressDocs[i].lesson = req[p].lesson
                /\ progressDocs[i].completed
                /\ progressDocs[i].completedAt < now

\* The approved reviews of course c in a Review collection.
ApprovedOf(docs, c) == {i \in DOMAIN docs : docs[i].course = c /\ docs[i].isApproved}

RECURSIVE RatingTotal(_, _)
RatingTotal(docs, ids) ==
    IF ids = {} THEN 0
    ELSE LET i == CHOOSE j \in ids : TRUE IN docs[i].rating + RatingTotal(docs, ids \ {i})

\* The number avg is the mean of the ratings of the reviews ids, 0 for none.
IsMeanOf(avg, docs, ids) ==
    IF ids = {}
    THEN avg.num = 0
    ELSE avg.num * Cardinality(ids) = RatingTotal(docs, ids) * avg.den

\* C20: a recomputation for a course reads the reviews of that course with
\* isApproved = true and no others, and sets Course.averageRating to the mean
\* of their ratings and Course.totalReviews to their number, both 0 when there
\* is no approved review; every other course keeps its values.
C20_RecomputeStep ==
    \A p \in Procs :
        /\ (req[p].pc = "aggregate" /\ req'[p].pc = "write") =>
                LET c == req[p].course
                    ids == ApprovedOf(reviews, c) IN
                /\ IsMeanOf(RatingOr0(req'[p].result), reviews, ids)
                /\ TotalOr0(req'[p].result) = Cardinality(ids)
        /\ (req[p].pc = "write" /\ req'[p].pc = "done") =>
                LET c == req[p].course IN
                /\ courses'[c].averageRating = RatingOr0(req[p].result)
                /\ courses'[c].totalReviews = TotalOr0(req[p].result)
                /\ \A k \in DOMAIN courses \ {c} : courses'[k] = courses[k]

C20_Recompute == [][C20_RecomputeStep]_vars

\* Course A has one approved review rated 5 and one that is not approved and
\* rated 2: the recomputation has set the mean to 5 and the number to 1.
C20_Witness ==
    \E p \in Procs :
        /\ req[p].op = "review"
        /\ req[p].pc = "done"
        /\ req[p].course = "A"
        /\ req[p].result # <<>>
        /\ courses["A"].averageRating = [num |-> 5, den |-> 1]
        /\ courses["A"].totalReviews = 1
        /\ \E i \in DOMAIN reviews :
                reviews[i].course = "A" /\ ~reviews[i].isApproved /\ reviews[i].rating = 2

\* C21: when the recomputation started by the deletion of an approved review
\* has completed, Course.averageRating is the mean of the approved reviews of
\* the course that remain, 0 when none remains.
C21_DeleteRecomputes ==
    \A p \in Procs :
        (/\ req[p].op = "review"
         /\ req[p].resp = "removed"
         /\ req[p].pc = "done"
         /\ req[p].doc[1].isApproved) =>
            LET c == req[p].course IN
            /\ IsMeanOf(courses[c].averageRating, reviews, ApprovedOf(reviews, c))
            /\ courses[c].totalReviews = Cardinality(ApprovedOf(reviews, c))

\* Course A had two approved reviews rated 2 and 5; the one rated 2 was
\* deleted and the recomputation left the mean 5 of the one that remains.
C21_Witness ==
    \E p \in Procs :
        /\ req[p].op = "review"
        /\ req[p].resp = "removed"
        /\ req[p].pc = "done"
        /\ req[p].doc = <<[course |-> "A", user |-> "s1", rating |-> 2, isApproved |-> TRUE]>>
        /\ ApprovedOf(reviews, "A") # {}
        /\ courses["A"].averageRating = [num |-> 5, den |-> 1]

\* C22: a recomputation that fails, in its aggregate or in its write, ends
\* with its error caught and logged, leaves the answer of the review write that
\* started it (a success) as it was, and leaves every course as it was.
C22_FailureStep ==
    \A p \in Procs :
        (/\ req[p].op = "review"
         /\ req[p].pc \in {"aggregate", "write"}
         /\ req'[p].pc \in {"logged", "rejected"}) =>
            /\ req'[p].pc = "logged"
            /\ req'[p].resp = req[p].resp
            /\ req'[p].resp \in {"saved", "removed"}
            /\ courses' = courses

C22_FailureSwallowed == [][C22_FailureStep]_vars

IsPrefix(a, b) == Len(a) <= Len(b) /\ SubSeq(b, 1, Len(a)) = a

\* C23: no step of any request changes or removes a certificate that an
\* enrollment holds, and a request made when the enrollment holds a certificate
\* (updateProgress, setStatus or unenroll) leaves its certificates as they are
\* and issues no other one.
C23_CertificateStableStep ==
    /\ \A i \in DOMAIN enrollments :
        IsPrefix(enrollments[i].certificates, enrollments'[i].certificates)
    /\ \A p \in Procs :
        (/\ Ready(p)
         /\ Acted(p)
         /\ req'[p].id \in DOMAIN enrollments
         /\ Len(enrollments[req'[p].id].certificates) > 0) =>
            /\ enrollments'[req'[p].id].certificates = enrollments[req'[p].id].certificates
            /\ req'[p].pc # "save"

C23_CertificateStable == [][C23_CertificateStableStep]_vars

\* An enrollment was completed, set back to active and completed again: both
\* requests were answered ok and it holds the one certificate of the first.
C23_Witness ==
    \E p, q \in Procs :
        /\ p # q
        /\ AnsweredCompletion(p) /\ req[p].resp = "ok"
        /\ AnsweredCompletion(q) /\ req[q].resp = "ok"
        /\ req[p].id = req[q].id
        /\ Len(enrollments[req[p].id].certificates) = 1

\* The courses an error body names: those of its field missing, if it has one.
NamedCourses(body) == IF "missing" \in DOMAIN body THEN body.missing ELSE {}

\* C24: the error of an enrollment request rejected with 'Prerequisites not
\* met' names exactly the prerequisite courses in which the student has no
\* completed enrollment.
C24_NamesMissingPrerequisites ==
    \A p \in Procs :
        (req[p].op = "enroll" /\ req[p].resp = "Prerequisites not met") =>
            NamedCourses(ErrorBody(req[p].resp))
                = MissingPrerequisites(req[p].student, req[p].course)

\* The caller's enrollments that have status st.
OfStatus(u, st) ==
    {i \in DOMAIN enrollments : enrollments[i].student = u /\ enrollments[i].status = st}

RECURSIVE ProgressTotal(_)
ProgressTotal(ids) ==
    IF ids = {} THEN 0
    ELSE LET i == CHOOSE j \in ids : TRUE IN
         enrollments[i].progress + ProgressTotal(ids \ {i})

\* C25: no step of a dashboard read changes an Enrollment, Course, Review or
\* Progress record, and the statistics it reads have, for each status the
\* caller has enrollments in and for no other, the number of the caller's
\* enrollments of that status as committed at the read and the mean of their
\* progress.
C25_DashboardStep ==
    \A p \in Procs :
        (Acted(p) /\ req'[p].op = "stats") =>
            /\ UNCHANGED <<courses, enrollments, progressDocs, reviews>>
            /\ (Ready(p) =>
                    LET u == req'[p].student
                        stats == req'[p].result[1] IN
                    /\ DOMAIN stats = {enrollments[i].status : i \in
                            {j \in DOMAIN enrollments : enrollments[j].student = u}}
                    /\ \A st \in DOMAIN stats :
                        /\ stats[st].count = Cardinality(OfStatus(u, st))
                        /\ stats[st].avgProgress.num
                                = ProgressTotal(OfStatus(u, st))
                        /\ stats[st].avgProgress.den = Cardinality(OfStatus(u, st)))
            /\ (~Ready(p) => req'[p].result[1] = req[p].result[1])

C25_DashboardReadsCommitted == [][C25_DashboardStep]_vars

\* s1 has two active enrollments with progress 40 and 0 and s2 has one: the
\* dashboard of s1 counts 2 active with mean progress 40 / 2, while an enroll
\* transaction of another request is open.
C25_Witness ==
    \E p, q \in Procs :
        /\ req[p].op = "stats"
        /\ req[p].pc = "done"
        /\ req[p].student = "s1"
        /\ "active" \in DOMAIN req[p].result[1]
        /\ req[p].result[1]["active"].count = 2
        /\ req[p].result[1]["active"].avgProgress = [num |-> 40, den |-> 2]
        /\ InTxn(q)

\* C26: a step of a completeLesson call of user u on lesson l leaves every
\* Enrollment, every Course and every Review as it was, leaves every Progress
\* record of another (user, lesson) pair as it was, and adds at most one
\* Progress record, of (u, l).
C26_CompleteStep ==
    \A p \in Procs :
        (Acted(p) /\ req'[p].op = "complete") =>
            /\ UNCHANGED <<enrollments, courses, reviews>>
            /\ Len(progressDocs') \in {Len(progressDocs), Len(progressDocs) + 1}
            /\ \A i \in DOMAIN progressDocs' :
                \/ /\ i \in DOMAIN progressDocs
                   /\ progressDocs'[i] = progressDocs[i]
                \/ /\ progressDocs'[i].user = req'[p].student
                   /\ progressDocs'[i].lesson = req'[p].lesson

C26_CompleteChangesOnlyItsRecord == [][C26_CompleteStep]_vars

\* s1 is enrolled in course A with progress 40 and lesson l2 recorded, s2 has
\* a Progress record of lesson l1, and s1 has completed lesson l1 of course A:
\* the enrollment still has progress 40 and only l2.
C26_Witness ==
    \E p \in Procs, i \in DOMAIN enrollments :
        /\ req[p].op = "complete"
        /\ req[p].resp = "Lesson marked as completed"
        /\ req[p].student = "s1"
        /\ req[p].lesson = "l1"
        /\ enrollments[i].student = "s1"
        /\ enrollments[i].course = "A"
        /\ enrollments[i].progress = 40
        /\ enrollments[i].completedLessons = {"l2"}
        /\ \E k \in DOMAIN progressDocs : progressDocs[k].user = "s2"
        /\ \E k \in DOMAIN progressDocs :
                progressDocs[k].user = "s1" /\ progressDocs[k].lesson = "l1"

\* The enrollments of course c that are not cancelled.
NonCancelled(c) ==
    {i \in DOMAIN enrollments :
        enrollments[i].course = c /\ enrollments[i].status # "cancelled"}

\* C27: whenever no request is in flight, the enrollmentCount of every course
\* is the number of its enrollments whose status is not cancelled.
C27_CountMatchesEnrollments ==
    (\A p \in Procs : Ready(p)) =>
        \A c \in DOMAIN courses :
            courses[c].enrollmentCount = Cardinality(NonCancelled(c))

\* C28: each enrollment contributes at most one decrement: an unenroll of an
\* enrollment that is already cancelled leaves enrollmentCount as it is, and
\* enrollmentCount is never negative.
C28_NeverNegative ==
    \A c \in DOMAIN courses : courses[c].enrollmentCount >= 0

\* C29: a course with maxEnrollments = N never has more than N enrollments
\* with status active or completed.
C29_WithinCapacity ==
    \A c \in DOMAIN courses :
        Truthy(courses[c].maxEnrollments) =>
            Cardinality({i \in DOMAIN enrollments :
                            /\ enrollments[i].course = c
                            /\ enrollments[i].status \in {"active", "completed"}})
                <= courses[c].maxEnrollments[1]

\* C30: an enroll request of a student who has an enrollment in the course,
\* none of them active or completed, and who passes every check of the
\* handler, is answered 'created'.
C30_ReenrollSucceeds ==
    \A p \in Procs :
        (/\ req[p].op = "enroll"
         /\ req[p].pc = "done"
         /\ IndexHolders(req[p].student, req[p].course) # {}
         /\ Admission(req[p].student, req[p].course) = "ok") =>
            req[p].resp = "created"

\* C31: once every recomputation that was started has finished, the
\* averageRating and totalReviews of every course are the mean and the number
\* of its approved reviews, whatever the interleaving of the review writes and
\* the recomputations.
C31_SettlesToCurrentReviews ==
    (\A p \in Procs : Ready(p)) =>
        \A c \in DOMAIN courses :
            /\ IsMeanOf(courses[c].averageRating, reviews, ApprovedOf(reviews, c))
            /\ courses[c].totalReviews = Cardinality(ApprovedOf(reviews, c))

\* The target <<id, caller>> names an enrollment of another student.
Foreign(t) == t[1] \in DOMAIN enrollments /\ enrollments[t[1]].student # t[2]

\* No step of an updateProgress, setStatus or unenroll request changes an
\* enrollment of a student other than the caller.
OthersUntouched ==
    \A p \in Procs :
        (Acted(p) /\ req'[p].op \in {"progress", "status", "unenroll"}) =>
            \A i \in DOMAIN enrollments :
                enrollments[i].student # req'[p].student =>
                    enrollments'[i] = enrollments[i]

\* C32 as stated: a request of caller X never changes an enrollment of another
\* student, and a request on an enrollment of another student changes no
\* enrollment and no enrollmentCount and is answered not-found.
C32_ForeignNotFoundStep ==
    /\ OthersUntouched
    /\ \A p \in Procs :
        (Ready(p) /\ Acted(p) /\ req'[p].op \in {"progress", "status", "unenroll"}) =>
            \A t \in {x \in Targets : x[1] = req'[p].id /\ x[2] = req'[p].student} :
                Foreign(t) =>
                    /\ \A b \in {x \in UpdateBodies : req'[p].op = "progress"} :
                        UpdateProgress(p, t[1], t[2], b[1], b[2], b[3]) =>
                            /\ UNCHANGED <<enrollments, courses>>
                            /\ req'[p].resp = "Active enrollment not found"
                    /\ \A st \in {x \in StatusInputs : req'[p].op = "status"} :
                        SetStatus(p, t[1], t[2], st) =>
                            /\ UNCHANGED <<enrollments, courses>>
                            /\ req'[p].resp = "Enrollment not found"
                    /\ (req'[p].op = "unenroll" /\ Unenroll(p, t[1], t[2])) =>
                            /\ UNCHANGED <<enrollments, courses>>
                            /\ req'[p].resp = "Enrollment not found"

C32_ForeignNotFound == [][C32_ForeignNotFoundStep]_vars

\* C32 amended: the same, except that a request whose input fails validation
\* is answered with the validation error, before any enrollment is looked up.
C32_ForeignRefusedStep ==
    /\ OthersUntouched
    /\ \A p \in Procs :
        (Ready(p) /\ Acted(p) /\ req'[p].op \in {"progress", "status", "unenroll"}) =>
            \A t \in {x \in Targets : x[1] = req'[p].id /\ x[2] = req'[p].student} :
                Foreign(t) =>
                    /\ \A b \in {x \in UpdateBodies : req'[p].op = "progress"} :
                        UpdateProgress(p, t[1], t[2], b[1], b[2], b[3]) =>
                            /\ UNCHANGED <<enrollments, courses>>
                            /\ req'[p].pc = "done"
                            /\ req'[p].resp = IF progressValidation(b[1], b[3])
                                              THEN "Active enrollment not found"
                                              ELSE "Validation failed"
                    /\ \A st \in {x \in StatusInputs : req'[p].op = "status"} :
                        SetStatus(p, t[1], t[2], st) =>
                            /\ UNCHANGED <<enrollments, courses>>
                            /\ req'[p].pc = "done"
                            /\ req'[p].resp = IF st \in validStatuses
                                              THEN "Enrollment not found"
                                              ELSE "Invalid status"
                    /\ (req'[p].op = "unenroll" /\ Unenroll(p, t[1], t[2])) =>
                            /\ UNCHANGED <<enrollments, courses>>
                            /\ req'[p].pc = "done"
                            /\ req'[p].resp = "Enrollment not found"

C32_ForeignRefused == [][C32_ForeignRefusedStep]_vars

\* s2 asked to unenroll the active enrollment of s1 and was answered
\* not-found: the enrollment is still active and counted.
C32_Witness ==
    \E p \in Procs :
        /\ req[p].op = "unenroll"
        /\ req[p].pc = "done"
        /\ req[p].student = "s2"
        /\ req[p].resp = "Enrollment not found"
        /\ req[p].id \in DOMAIN enrollments
        /\ enrollments[req[p].id].student = "s1"
        /\ enrollments[req[p].id].status = "active"
        /\ courses[enrollments[req[p].id].course].enrollmentCount = 1

\* C33: a user who has completed one lesson of a course and completes another
\* lesson of that course succeeds, and a completed Progress record of the user
\* then exists for the second lesson (and still for the first).
C33_SecondLessonStep ==
    \A p \in Procs :
        (/\ req[p].op = "complete"
         /\ req[p].pc = "upsert"
         /\ req'[p].pc = "done"
         /\ \E k \in DOMAIN progressDocs :
                /\ progressDocs[k].user = req[p].student
                /\ progressDocs[k].course = req[p].course
                /\ progressDocs[k].lesson # req[p].lesson
                /\ progressDocs[k].completed) =>
            /\ req'[p].resp = "Lesson marked as completed"
            /\ \E k \in DOMAIN progressDocs' :
                /\ progressDocs'[k].user = req[p].student
                /\ progressDocs'[k].lesson = req[p].lesson
                /\ progressDocs'[k].completed
            /\ \A k \in DOMAIN progressDocs : progressDocs'[k] = progressDocs[k]

C33_SecondLessonCompletes == [][C33_SecondLessonStep]_vars

====
